---- MODULE Spec2Model ----
(***************************************************************************)
(* grocery_chain_analysis.py: load_and_clean, save_summary, the seven      *)
(* chart/export functions and main, as a state machine over one CSV input. *)
(*                                                                         *)
(* A cell of the CSV file is a text: a tuple of one-character strings.     *)
(* The empty text <<>> is the empty field, which read_csv reads as missing.*)
(* A parsed value is <<>> (missing: NaN / NaT) or the one-element tuple    *)
(* <<v>>. Amounts are integers (cents).                                    *)
(***************************************************************************)
EXTENDS Integers, Sequences, FiniteSets, TLC

VARIABLES
  input,    \* the CSV file: [readable, columns, rows]
  build,    \* the tie order of the sort kernel of the numpy build
  rng,      \* the state of the global random generator of the process
  pc,       \* the statement of main that is next, or that raised
  status,   \* "running", "done" or "aborted"
  err,      \* the exception that aborted the run, "" when none
  df,       \* the cleaned table
  disk,     \* the content of each output file, Absent when there is none
  written,  \* the files this run has written
  printed,  \* this run has printed the completion line
  prev      \* what the previous run wrote, Absent for a file it did not

vars ==
  <<input, build, rng, pc, status, err, df, disk, written, printed, prev>>

----------------------------------------------------------------------------
(* Texts *)

\* The characters of the modelled texts, in code point order.
Alphabet ==
  <<"-", "0", "1", "2", "3", "4", "5", "6", "7", "8", "9",
    "A", "B", "C", "D", "E", "F", "G", "H", "I", "J", "K", "L", "M", "N",
    "O", "P", "Q", "S", "T", "W",
    "a", "d", "e", "h", "i", "n", "o", "r", "s", "t", "u", "x", "y">>

Ord(c) == CHOOSE i \in 1..Len(Alphabet) : Alphabet[i] = c

Digits == {"0", "1", "2", "3", "4", "5", "6", "7", "8", "9"}

DigitVal(c) == Ord(c) - Ord("0")

Min2(a, b) == IF a <= b THEN a ELSE b

\* Python's ordering of str: by code point, a proper prefix first.
StrLess(s, t) ==
  \E k \in 1..(Min2(Len(s), Len(t)) + 1) :
     /\ \A j \in 1..(k - 1) : s[j] = t[j]
     /\ \/ (k = Len(s) + 1 /\ k <= Len(t))
        \/ (k <= Len(s) /\ k <= Len(t) /\ Ord(s[k]) < Ord(t[k]))

NaN == <<>>

IsMissing(x) == x = <<>>

RECURSIVE DigitsValue(_)
DigitsValue(s) ==
  IF s = <<>> THEN 0
  ELSE 10 * DigitsValue(SubSeq(s, 1, Len(s) - 1)) + DigitVal(s[Len(s)])

AllDigits(s) == s # <<>> /\ \A i \in 1..Len(s) : s[i] \in Digits

\* A text is the decimal notation of an integer: digits, "-" before them or not.
IsNumberText(s) ==
  \/ AllDigits(s)
  \/ Len(s) >= 2 /\ s[1] = "-" /\ AllDigits(Tail(s))

NumberValue(s) ==
  IF s[1] = "-" THEN 0 - DigitsValue(Tail(s)) ELSE DigitsValue(s)

\* pd.to_numeric(cell, errors=...) raises ValueError on a text that is no
\* number, unless errors = "coerce".
to_numeric_raises_always(s, errors) ==
  s # <<>> /\ ~IsNumberText(s)

to_numeric_raises(s, errors) ==
  s # <<>> /\ ~IsNumberText(s) /\ errors # "coerce"

\* pd.to_numeric(cell, errors="coerce"): the number, missing for the empty
\* field and for a text that is no number.
to_numeric(s) ==
  IF s # <<>> /\ IsNumberText(s) THEN <<NumberValue(s)>> ELSE NaN

----------------------------------------------------------------------------
(* Dates *)

IsLeap(y) == (y % 4 = 0 /\ y % 100 # 0) \/ y % 400 = 0

DaysIn(y, m) ==
  IF m = 2 THEN (IF IsLeap(y) THEN 29 ELSE 28)
  ELSE IF m \in {4, 6, 9, 11} THEN 30 ELSE 31

\* A text YYYY-MM-DD that names a day of the calendar.
IsDateText(s) ==
  /\ Len(s) = 10
  /\ s[5] = "-" /\ s[8] = "-"
  /\ \A i \in {1, 2, 3, 4, 6, 7, 9, 10} : s[i] \in Digits
  /\ LET y == DigitsValue(SubSeq(s, 1, 4))
         m == DigitsValue(SubSeq(s, 6, 7))
         d == DigitsValue(SubSeq(s, 9, 10))
     IN  m \in 1..12 /\ d \in 1..DaysIn(y, m)

\* pd.to_datetime(cell, errors="coerce"): the timestamp or NaT.
to_datetime(s) ==
  IF IsDateText(s)
  THEN <<[y |-> DigitsValue(SubSeq(s, 1, 4)),
          m |-> DigitsValue(SubSeq(s, 6, 7)),
          d |-> DigitsValue(SubSeq(s, 9, 10))]>>
  ELSE NaN

DigitChar(n) == Alphabet[Ord("0") + n]

TwoDigits(n) == <<DigitChar(n \div 10), DigitChar(n % 10)>>

FourDigits(n) ==
  <<DigitChar(n \div 1000), DigitChar((n \div 100) % 10),
    DigitChar((n \div 10) % 10), DigitChar(n % 10)>>

NaTText == <<"N", "a", "T">>

\* .dt.to_period("M").astype(str): "YYYY-MM", and "NaT" for a missing date.
period_str_unpadded(t) ==
  IF IsMissing(t) THEN NaTText
  ELSE FourDigits(t[1].y) \o <<"-">> \o
       (IF t[1].m < 10 THEN <<DigitChar(t[1].m)>> ELSE TwoDigits(t[1].m))

period_str(t) ==
  IF IsMissing(t) THEN NaTText
  ELSE FourDigits(t[1].y) \o <<"-">> \o TwoDigits(t[1].m)

weekdays ==
  << <<"M", "o", "n", "d", "a", "y">>,
     <<"T", "u", "e", "s", "d", "a", "y">>,
     <<"W", "e", "d", "n", "e", "s", "d", "a", "y">>,
     <<"T", "h", "u", "r", "s", "d", "a", "y">>,
     <<"F", "r", "i", "d", "a", "y">>,
     <<"S", "a", "t", "u", "r", "d", "a", "y">>,
     <<"S", "u", "n", "d", "a", "y">> >>

\* Days from 0001-01-01 (a Monday) to the date.
DaysBeforeYear(y) ==
  (y - 1) * 365 + (y - 1) \div 4 - (y - 1) \div 100 + (y - 1) \div 400

RECURSIVE DaysBeforeMonth(_, _)
DaysBeforeMonth(y, m) ==
  IF m = 1 THEN 0 ELSE DaysBeforeMonth(y, m - 1) + DaysIn(y, m - 1)

\* .dt.day_name(): the English weekday name, missing for NaT.
day_name(t) ==
  IF IsMissing(t) THEN NaN
  ELSE weekdays[((DaysBeforeYear(t[1].y) + DaysBeforeMonth(t[1].y, t[1].m)
                   + t[1].d - 1) % 7) + 1]

----------------------------------------------------------------------------
(* Tables: [columns |-> the column names, rows |-> the rows, each a function
   from the column names to the cells] *)

\* df[c]: the cells of column c.
Column(t, c) == [i \in 1..Len(t.rows) |-> t.rows[i][c]]

\* df[c] = cells: the cell of column c of row i becomes cells[i]; c is added
\* when the table has no such column.
SetColumn(t, c, cells) ==
  [columns |-> t.columns \cup {c},
   rows |-> [i \in 1..Len(t.rows) |->
               [k \in t.columns \cup {c} |->
                  IF k = c THEN cells[i] ELSE t.rows[i][k]]]]

num_cols ==
  <<"quantity", "unit_price", "total_amount",
    "discount_amount", "final_amount", "loyalty_points">>

\* pd.read_csv(fp): the columns and rows of the file, every cell a text.
read_csv(fp) == [columns |-> fp.columns, rows |-> fp.rows]

\* The exception read_csv raises ("" for none): the file cannot be read.
read_csv_error(fp) == IF fp.readable THEN "" ELSE "FileNotFoundError"

\* Lines 16-20: the parsed transaction_date and the three columns derived
\* from it, when the file has a transaction_date column.
parse_dates(t) ==
  IF "transaction_date" \in t.columns
  THEN LET n == Len(t.rows)
           a == SetColumn(t, "transaction_date",
                          [i \in 1..n |-> to_datetime(t.rows[i]["transaction_date"])])
           b == SetColumn(a, "date", Column(a, "transaction_date"))
           c == SetColumn(b, "year_month",
                          [i \in 1..n |-> period_str(b.rows[i]["transaction_date"])])
       IN  SetColumn(c, "weekday",
                     [i \in 1..n |-> day_name(c.rows[i]["transaction_date"])])
  ELSE t

\* Lines 24-26: the loop over num_cols, from its k-th column on.
RECURSIVE clean_numeric(_, _)
clean_numeric(t, k) ==
  IF k > Len(num_cols) THEN t
  ELSE IF num_cols[k] \in t.columns
       THEN clean_numeric(
              SetColumn(t, num_cols[k],
                        [i \in 1..Len(t.rows) |-> to_numeric(t.rows[i][num_cols[k]])]),
              k + 1)
       ELSE clean_numeric(t, k + 1)

\* The exception the numeric cleaning raises ("" for none).
clean_numeric_error(t) ==
  IF \E k \in 1..Len(num_cols) :
        /\ num_cols[k] \in t.columns
        /\ \E i \in 1..Len(t.rows) :
              to_numeric_raises(t.rows[i][num_cols[k]], "coerce")
  THEN "ValueError" ELSE ""

\* load_and_clean(fp): the cleaned table.
clean(fp) == clean_numeric(parse_dates(read_csv(fp)), 1)

\* The exception load_and_clean raises ("" for none).
load_and_clean_error(fp) ==
  IF read_csv_error(fp) # "" THEN read_csv_error(fp)
  ELSE clean_numeric_error(parse_dates(read_csv(fp)))

----------------------------------------------------------------------------
(* Series and aggregation: a Series is a sequence of [key, value] entries *)

Present(xs) == {i \in 1..Len(xs) : ~IsMissing(xs[i])}

\* The sum of the present values of xs[lo..hi]: missing values are skipped,
\* and the sum of no value is 0.
RECURSIVE SumRange(_, _, _)
SumRange(xs, lo, hi) ==
  IF lo > hi THEN 0
  ELSE IF lo = hi THEN (IF IsMissing(xs[lo]) THEN 0 ELSE xs[lo][1])
  ELSE LET mid == (lo + hi) \div 2
       IN  SumRange(xs, lo, mid) + SumRange(xs, mid + 1, hi)

\* Series.sum()
nansum(xs) == SumRange(xs, 1, Len(xs))

RECURSIVE GCD(_, _)
GCD(a, b) == IF b = 0 THEN a ELSE GCD(b, a % b)

Abs(a) == IF a < 0 THEN 0 - a ELSE a

\* The rational n/d (d > 0) in lowest terms.
Frac(n, d) ==
  LET g == GCD(Abs(n), d) IN [n |-> n \div g, d |-> d \div g]

\* Series.mean(): the sum of the present values over their number; missing
\* when no value is present.
mean_over_rows(xs) ==
  IF Len(xs) = 0 THEN NaN ELSE <<Frac(nansum(xs), Len(xs))>>

mean(xs) ==
  IF Present(xs) = {} THEN NaN
  ELSE <<Frac(nansum(xs), Cardinality(Present(xs)))>>

\* The k-th smallest of the present values of xs: the value at position k
\* of the sorted values.
nth(xs, k) ==
  LET P == Present(xs)
  IN  CHOOSE v \in {xs[i][1] : i \in P} :
        /\ Cardinality({i \in P : xs[i][1] < v}) < k
        /\ Cardinality({i \in P : xs[i][1] <= v}) >= k

\* Series.median(): the middle present value, or the mean of the two middle
\* ones; missing when no value is present.
median_lower(xs) ==
  LET n == Cardinality(Present(xs))
  IN  IF n = 0 THEN NaN ELSE <<Frac(nth(xs, (n + 1) \div 2), 1)>>

median(xs) ==
  LET n == Cardinality(Present(xs))
  IN  IF n = 0 THEN NaN
      ELSE IF n % 2 = 1 THEN <<Frac(nth(xs, (n + 1) \div 2), 1)>>
      ELSE <<Frac(nth(xs, n \div 2) + nth(xs, n \div 2 + 1), 2)>>

\* The texts of S in ascending order.
SortedKeys(S) ==
  LET Rank(k) == 1 + Cardinality({j \in S : StrLess(j, k)})
  IN  [p \in 1..Cardinality(S) |-> CHOOSE k \in S : Rank(k) = p]

\* The group keys of df.groupby(key): the values of the column, a missing
\* key dropped.
GroupKeys(t, key) ==
  {t.rows[i][key] : i \in 1..Len(t.rows)} \ {NaN}

\* df.groupby(key)[val].sum(): one entry per group key, in ascending key
\* order, with the sum of the group's present values.
groupby_sum(t, key, val) ==
  LET keys == SortedKeys(GroupKeys(t, key))
  IN  [p \in 1..Len(keys) |->
         [key |-> keys[p],
          value |-> <<nansum([i \in 1..Len(t.rows) |->
                                IF t.rows[i][key] = keys[p]
                                THEN t.rows[i][val] ELSE NaN])>>]]

\* The order in which the sort kernel of the build leaves two entries of
\* equal value, given their positions in the sorted array.
TieOrders == {"as_given", "reversed", "interleaved"}

TieBefore(kernel, i, j) ==
  CASE kernel = "as_given" -> i < j
    [] kernel = "reversed" -> i > j
    [] OTHER -> (i % 2 = 1 /\ j % 2 = 0) \/ (i % 2 = j % 2 /\ i < j)

\* Series.sort_values(ascending=False) with the default kind "quicksort",
\* which is not stable.
sort_values_ascending(s, kernel) ==
  LET n == Len(s)
      Before(i, j) ==
        \/ s[i].value[1] < s[j].value[1]
        \/ (s[i].value[1] = s[j].value[1] /\ TieBefore(kernel, i, j))
      Rank(i) == 1 + Cardinality({j \in 1..n : Before(j, i)})
  IN  [p \in 1..n |-> s[CHOOSE i \in 1..n : Rank(i) = p]]

sort_values(s, kernel) ==
  LET n == Len(s)
      Before(i, j) ==
        \/ s[i].value[1] > s[j].value[1]
        \/ (s[i].value[1] = s[j].value[1] /\ TieBefore(kernel, i, j))
      Rank(i) == 1 + Cardinality({j \in 1..n : Before(j, i)})
  IN  [p \in 1..n |-> s[CHOOSE i \in 1..n : Rank(i) = p]]

\* Series.head(n)
head(s, n) == SubSeq(s, 1, Min2(n, Len(s)))

\* Series.reindex(labels): one entry per label, in the order of the labels,
\* missing for a label the Series has no entry for.
reindex_zero(s, labels) ==
  [p \in 1..Len(labels) |->
     [key |-> labels[p],
      value |-> IF \E j \in 1..Len(s) : s[j].key = labels[p]
                THEN s[CHOOSE j \in 1..Len(s) : s[j].key = labels[p]].value
                ELSE <<0>>]]

reindex(s, labels) ==
  [p \in 1..Len(labels) |->
     [key |-> labels[p],
      value |-> IF \E j \in 1..Len(s) : s[j].key = labels[p]
                THEN s[CHOOSE j \in 1..Len(s) : s[j].key = labels[p]].value
                ELSE NaN]]

----------------------------------------------------------------------------
(* The pivot of plot_store_month_heatmap: [columns |-> the month labels,
   rows |-> entries [key |-> store, values |-> one cell per month label]] *)

\* The (store, month) groups of pivot_table: the rows with both keys present.
PivotRows(t) ==
  {i \in 1..Len(t.rows) : ~IsMissing(t.rows[i]["store_name"])
                          /\ ~IsMissing(t.rows[i]["year_month"])}

\* The cell of a group: the sum of its present final amounts; missing when
\* no row is in the group.
PivotCell(t, store, month) ==
  LET G == {i \in PivotRows(t) : /\ t.rows[i]["store_name"] = store
                                 /\ t.rows[i]["year_month"] = month}
  IN  IF G = {} THEN NaN
      ELSE <<nansum([i \in 1..Len(t.rows) |->
                       IF i \in G THEN t.rows[i]["final_amount"] ELSE NaN])>>

\* DataFrame.fillna(fill_value) on one cell.
fillna_none(cell, fill_value) == cell

fillna(cell, fill_value) == IF IsMissing(cell) THEN <<fill_value>> ELSE cell

\* df.pivot_table(index="store_name", columns="year_month",
\*                values="final_amount", aggfunc="sum", fill_value=0)
pivot_table(t) ==
  LET stores == SortedKeys({t.rows[i]["store_name"] : i \in PivotRows(t)})
      months == SortedKeys({t.rows[i]["year_month"] : i \in PivotRows(t)})
  IN  [columns |-> months,
       rows |-> [p \in 1..Len(stores) |->
                   [key |-> stores[p],
                    values |-> [q \in 1..Len(months) |->
                                  fillna(PivotCell(t, stores[p], months[q]), 0)]]]]

\* pivot.sum(axis=1): the total of each store over its months.
row_totals(pivot) ==
  [p \in 1..Len(pivot.rows) |->
     [key |-> pivot.rows[p].key, value |-> <<nansum(pivot.rows[p].values)>>]]

\* pivot.loc[index]: the rows of the given stores, in the order given.
loc(pivot, index) ==
  [columns |-> pivot.columns,
   rows |-> [p \in 1..Len(index) |->
               pivot.rows[CHOOSE q \in 1..Len(pivot.rows) :
                             pivot.rows[q].key = index[p].key]]]

\* The numbers of entries the charts show.
TopStores == 12

TopAisles == 12

TopProducts == 15

TopHeatmapStores == 12

\* The rows of pivot_top, lines 117-121.
pivot_top_all(t, kernel) ==
  LET pivot == pivot_table(t)
  IN  loc(pivot, sort_values(row_totals(pivot), kernel))

pivot_top(t, kernel) ==
  LET pivot == pivot_table(t)
      store_totals == sort_values(row_totals(pivot), kernel)
      top_stores == head(store_totals, TopHeatmapStores)
  IN  loc(pivot, top_stores)

----------------------------------------------------------------------------
(* The sample of plot_discount_vs_sales *)

SampleSize == 800

SampleSeed == 1

\* The generator df.sample draws from: its own, seeded with random_state.
sample_state_global(global) == global

sample_state(global) == SampleSeed

\* A multiplier of the permutation of 0..len-1 drawn in the given state.
Multiplier(state, len) ==
  CHOOSE m \in (state + 1)..(state + len + 1) : GCD(m, len) = 1

\* RandomState.permutation(len)[:n], as row positions 1..len: a permutation
\* that the state of the generator and len determine.
choice(state, len, n) ==
  [i \in 1..n |-> ((Multiplier(state, len) * i + state) % len) + 1]

\* df.sample(n=min(800, len(df)), random_state=1): the positions of the
\* sampled rows, in the order drawn.
sample_all(t, global) ==
  choice(sample_state(global), Len(t.rows), Len(t.rows))

sample(t, global) ==
  choice(sample_state(global), Len(t.rows), Min2(SampleSize, Len(t.rows)))

----------------------------------------------------------------------------
(* What each function of the pipeline computes from the cleaned table *)

\* save_summary, lines 30-36.
summ(t) ==
  [total_sales |-> <<nansum(Column(t, "final_amount"))>>,
   total_transactions |-> Len(t.rows),
   total_quantity |-> <<nansum(Column(t, "quantity"))>>,
   avg_transaction_value |-> mean(Column(t, "final_amount")),
   median_transaction_value |-> median(Column(t, "final_amount"))]

\* pd.to_datetime(label).dt.to_period("M").dt.to_timestamp(): the first day
\* of the month a label "YYYY-MM" or "YYYY-M" names; NaT for "NaT".
month_start(label) ==
  IF /\ Len(label) \in {6, 7}
     /\ label[5] = "-"
     /\ \A i \in (1..Len(label)) \ {5} : label[i] \in Digits
     /\ DigitsValue(SubSeq(label, 6, Len(label))) \in 1..12
  THEN <<[y |-> DigitsValue(SubSeq(label, 1, 4)),
          m |-> DigitsValue(SubSeq(label, 6, Len(label))),
          d |-> 1]>>
  ELSE NaN

\* plot_timeseries, line 42: the frame monthly, an object of its own.
monthly_frame(t) == groupby_sum(t, "year_month", "final_amount")

\* plot_timeseries, line 43: the assignment to monthly['year_month']. The
\* frames are [df |-> the cleaned table, monthly |-> the monthly totals].
assign_year_month_to_df(frames) ==
  [df |-> SetColumn(frames.df, "year_month",
                    [i \in 1..Len(frames.df.rows) |->
                       month_start(frames.df.rows[i]["year_month"])]),
   monthly |-> frames.monthly]

assign_year_month(frames) ==
  [df |-> frames.df,
   monthly |-> [p \in 1..Len(frames.monthly) |->
                  [key |-> month_start(frames.monthly[p].key),
                   value |-> frames.monthly[p].value]]]

timeseries_frames(t) ==
  assign_year_month([df |-> t, monthly |-> monthly_frame(t)])

\* plot_sales_by_store, line 56.
by_store(t, kernel) ==
  sort_values(groupby_sum(t, "store_name", "final_amount"), kernel)

\* plot_category_breakdown, line 70.
by_aisle(t, kernel) ==
  sort_values(groupby_sum(t, "aisle", "final_amount"), kernel)

\* plot_top_products, line 81.
by_product(t, kernel) ==
  sort_values(groupby_sum(t, "product_name", "final_amount"), kernel)

\* plot_weekday_pattern, line 94.
by_weekday(t) ==
  reindex(groupby_sum(t, "weekday", "final_amount"), weekdays)

\* s[::-1]
Reversed(s) == [p \in 1..Len(s) |-> s[Len(s) + 1 - p]]

\* plot_discount_vs_sales, lines 106-108: the sampled rows and their points.
scatter(t, global) ==
  LET rows == sample(t, global)
  IN  [rows |-> rows,
       points |-> [p \in 1..Len(rows) |->
                     [x |-> t.rows[rows[p]]["discount_amount"],
                      y |-> t.rows[rows[p]]["final_amount"]]]]

----------------------------------------------------------------------------
(* Files *)

SUMMARY_CSV == "summary_metrics.csv"
MONTHLY_PNG == "plots/monthly_sales.png"
MONTHLY_CSV == "monthly_sales.csv"
STORES_PNG == "plots/top_stores.png"
STORES_CSV == "sales_by_store.csv"
AISLE_PNG == "plots/aisle_pie_top12.png"
AISLE_CSV == "sales_by_aisle.csv"
PRODUCTS_PNG == "plots/top_products.png"
PRODUCTS_CSV == "sales_by_product.csv"
WEEKDAY_PNG == "plots/sales_by_weekday.png"
WEEKDAY_CSV == "sales_by_weekday.csv"
SCATTER_PNG == "plots/discount_vs_final_scatter.png"
HEATMAP_PNG == "plots/store_month_heatmap.png"
HEATMAP_CSV == "store_month_pivot_top12.csv"

Files ==
  {SUMMARY_CSV, MONTHLY_PNG, MONTHLY_CSV, STORES_PNG, STORES_CSV, AISLE_PNG,
   AISLE_CSV, PRODUCTS_PNG, PRODUCTS_CSV, WEEKDAY_PNG, WEEKDAY_CSV,
   SCATTER_PNG, HEATMAP_PNG, HEATMAP_CSV}

CsvFiles ==
  {SUMMARY_CSV, MONTHLY_CSV, STORES_CSV, AISLE_CSV, PRODUCTS_CSV,
   WEEKDAY_CSV, HEATMAP_CSV}

\* A file that does not exist.
Absent == <<>>

NoFiles == [f \in Files |-> Absent]

\* What a function writes is a sequence of [file, content], in the order
\* of its savefig and to_csv calls. The outcome of the file system is "ok",
\* or "png" / "csv": the first write of an image / of a table fails.
IsPng(f) == f \notin CsvFiles

Kind(f) == IF IsPng(f) THEN "png" ELSE "csv"

\* The number of writes that succeed.
Succeeded(writes, io) ==
  IF \E k \in 1..Len(writes) : Kind(writes[k].file) = io
  THEN (CHOOSE k \in 1..Len(writes) :
          /\ Kind(writes[k].file) = io
          /\ \A j \in 1..(k - 1) : Kind(writes[j].file) # io) - 1
  ELSE Len(writes)

WriteError(writes, io) == IF Succeeded(writes, io) < Len(writes) THEN "OSError" ELSE ""

\* The exception of df[c], groupby(c), pivot_table(.. c ..): a column the
\* table does not have.
KeyError(t, cols) == IF cols \subseteq t.columns THEN "" ELSE "KeyError"

----------------------------------------------------------------------------
(* main *)

\* The statements of main, lines 134-143, in order.
Steps ==
  <<"load_and_clean", "save_summary", "plot_timeseries", "plot_sales_by_store",
    "plot_category_breakdown", "plot_top_products", "plot_weekday_pattern",
    "plot_discount_vs_sales", "plot_store_month_heatmap", "print">>

StepNo(name) == CHOOSE k \in 1..Len(Steps) : Steps[k] = name

IoOutcomes == {"ok", "png", "csv"}

NoTable == [columns |-> {}, rows |-> <<>>]

\* (A main that catches what a call raises and goes on.)
Call_caught(name, e0, writes, io, table) ==
  LET k == IF e0 # "" THEN 0 ELSE Succeeded(writes, io)
      e == IF e0 # "" THEN e0 ELSE WriteError(writes, io)
      W == {writes[j].file : j \in 1..k}
  IN  /\ pc = name
      /\ status = "running"
      /\ disk' = [f \in Files |->
                    IF f \in W
                    THEN <<writes[CHOOSE j \in 1..k : writes[j].file = f].content>>
                    ELSE disk[f]]
      /\ written' = written \cup W
      /\ df' = table
      /\ err' = e
      /\ IF e = "" \/ name # "load_and_clean"
         THEN pc' = Steps[StepNo(name) + 1] /\ status' = "running"
         ELSE pc' = name /\ status' = "aborted"
      /\ UNCHANGED <<input, build, rng, printed, prev>>

\* One statement of main: the call raises e0 before it writes anything, or
\* performs its writes until one fails; the next statement runs only when
\* nothing was raised.
Call(name, e0, writes, io, table) ==
  LET k == IF e0 # "" THEN 0 ELSE Succeeded(writes, io)
      e == IF e0 # "" THEN e0 ELSE WriteError(writes, io)
      W == {writes[j].file : j \in 1..k}
  IN  /\ pc = name
      /\ status = "running"
      /\ disk' = [f \in Files |->
                    IF f \in W
                    THEN <<writes[CHOOSE j \in 1..k : writes[j].file = f].content>>
                    ELSE disk[f]]
      /\ written' = written \cup W
      /\ df' = table
      /\ err' = e
      /\ IF e = ""
         THEN pc' = Steps[StepNo(name) + 1] /\ status' = "running"
         ELSE pc' = name /\ status' = "aborted"
      /\ UNCHANGED <<input, build, rng, printed, prev>>

load_and_clean ==
  LET e == load_and_clean_error(input)
  IN  Call("load_and_clean", e, <<>>, "ok", IF e = "" THEN clean(input) ELSE df)

save_summary ==
  \E io \in IoOutcomes :
    LET e == KeyError(df, {"final_amount", "quantity"})
    IN  Call("save_summary", e,
             IF e = "" THEN <<[file |-> SUMMARY_CSV, content |-> summ(df)]>>
             ELSE <<>>,
             io, df)

plot_timeseries ==
  \E io \in IoOutcomes :
    LET e == KeyError(df, {"year_month", "final_amount"})
    IN  Call("plot_timeseries", e,
             IF e = ""
             THEN <<[file |-> MONTHLY_PNG, content |-> timeseries_frames(df).monthly],
                    [file |-> MONTHLY_CSV, content |-> timeseries_frames(df).monthly]>>
             ELSE <<>>,
             io, IF e = "" THEN timeseries_frames(df).df ELSE df)

plot_sales_by_store ==
  \E io \in IoOutcomes :
    LET e == KeyError(df, {"store_name", "final_amount"})
    IN  Call("plot_sales_by_store", e,
             IF e = ""
             THEN <<[file |-> STORES_PNG,
                     content |-> head(by_store(df, build), TopStores)],
                    [file |-> STORES_CSV, content |-> by_store(df, build)]>>
             ELSE <<>>,
             io, df)

\* (A category step without the test for the column.)
plot_category_breakdown_unguarded ==
  \E io \in IoOutcomes :
    LET e == KeyError(df, {"aisle", "final_amount"})
    IN  Call("plot_category_breakdown", e,
             IF e = ""
             THEN <<[file |-> AISLE_PNG,
                     content |-> head(by_aisle(df, build), TopAisles)],
                    [file |-> AISLE_CSV, content |-> by_aisle(df, build)]>>
             ELSE <<>>,
             io, df)

plot_category_breakdown ==
  \E io \in IoOutcomes :
    IF "aisle" \in df.columns
    THEN LET e == KeyError(df, {"final_amount"})
         IN  Call("plot_category_breakdown", e,
                  IF e = ""
                  THEN <<[file |-> AISLE_PNG,
                          content |-> head(by_aisle(df, build), TopAisles)],
                         [file |-> AISLE_CSV, content |-> by_aisle(df, build)]>>
                  ELSE <<>>,
                  io, df)
    ELSE Call("plot_category_breakdown", "", <<>>, io, df)

plot_top_products ==
  \E io \in IoOutcomes :
    LET e == KeyError(df, {"product_name", "final_amount"})
    IN  Call("plot_top_products", e,
             IF e = ""
             THEN <<[file |-> PRODUCTS_PNG,
                     content |-> Reversed(head(by_product(df, build), TopProducts))],
                    [file |-> PRODUCTS_CSV, content |-> by_product(df, build)]>>
             ELSE <<>>,
             io, df)

plot_weekday_pattern ==
  \E io \in IoOutcomes :
    LET e == KeyError(df, {"weekday", "final_amount"})
    IN  Call("plot_weekday_pattern", e,
             IF e = ""
             THEN <<[file |-> WEEKDAY_PNG, content |-> by_weekday(df)],
                    [file |-> WEEKDAY_CSV, content |-> by_weekday(df)]>>
             ELSE <<>>,
             io, df)

plot_discount_vs_sales ==
  \E io \in IoOutcomes :
    LET e == KeyError(df, {"discount_amount", "final_amount"})
    IN  Call("plot_discount_vs_sales", e,
             IF e = ""
             THEN <<[file |-> SCATTER_PNG, content |-> scatter(df, rng)]>>
             ELSE <<>>,
             io, df)

plot_store_month_heatmap ==
  \E io \in IoOutcomes :
    LET e == KeyError(df, {"store_name", "year_month", "final_amount"})
    IN  Call("plot_store_month_heatmap", e,
             IF e = ""
             THEN <<[file |-> HEATMAP_PNG, content |-> pivot_top(df, build)],
                    [file |-> HEATMAP_CSV, content |-> pivot_top(df, build)]>>
             ELSE <<>>,
             io, df)

\* Line 143: the completion line, and main returns.
print_completion ==
  /\ pc = "print"
  /\ status = "running"
  /\ printed' = TRUE
  /\ status' = "done"
  /\ UNCHANGED <<input, build, rng, pc, err, df, disk, written, prev>>

MaxRngState == 2

RngStates == 1..MaxRngState

\* Lines 145-146: after a run that completed, the script is started again on
\* the same input file, in a new process; the output files of the run
\* before stay on disk.
Rerun ==
  /\ status = "done"
  /\ pc' = "load_and_clean"
  /\ status' = "running"
  /\ err' = ""
  /\ df' = NoTable
  /\ written' = {}
  /\ printed' = FALSE
  /\ prev' = [f \in Files |-> IF f \in written THEN disk[f] ELSE Absent]
  /\ rng' \in RngStates
  /\ UNCHANGED <<input, build, disk>>

Next ==
  \/ load_and_clean
  \/ save_summary
  \/ plot_timeseries
  \/ plot_sales_by_store
  \/ plot_category_breakdown
  \/ plot_top_products
  \/ plot_weekday_pattern
  \/ plot_discount_vs_sales
  \/ plot_store_month_heatmap
  \/ print_completion
  \/ Rerun

\* The state when the script starts on the file fp for the first time.
Start(fp) ==
  /\ input = fp
  /\ build \in TieOrders
  /\ rng \in RngStates
  /\ pc = "load_and_clean"
  /\ status = "running"
  /\ err = ""
  /\ df = NoTable
  /\ disk = NoFiles
  /\ written = {}
  /\ printed = FALSE
  /\ prev = NoFiles

----------------------------------------------------------------------------
(* Input files *)

AllColumns ==
  {"transaction_date", "store_name", "product_name", "aisle", "quantity",
   "unit_price", "total_amount", "discount_amount", "final_amount",
   "loyalty_points"}

\* A row with the given date, store, product, aisle and final amount; n is
\* the text of its other numeric cells.
MkRow(d, s, p, a, f, n) ==
  [transaction_date |-> d, store_name |-> s, product_name |-> p, aisle |-> a,
   quantity |-> n, unit_price |-> n, total_amount |-> n,
   discount_amount |-> n, final_amount |-> f, loyalty_points |-> n]

\* The file with the given columns of the given rows.
File(readable, cols, rows) ==
  [readable |-> readable,
   columns |-> cols,
   rows |-> [i \in 1..Len(rows) |-> [c \in cols |-> rows[i][c]]]]

SeqsUpTo(S, n) == UNION {[1..k -> S] : k \in 0..n}

Sep15 == <<"2", "0", "2", "4", "-", "0", "9", "-", "1", "5">>
Oct07 == <<"2", "0", "2", "4", "-", "1", "0", "-", "0", "7">>
Dec31 == <<"2", "0", "2", "3", "-", "1", "2", "-", "3", "1">>
Jan01 == <<"2", "0", "2", "5", "-", "0", "1", "-", "0", "1">>
Month13 == <<"2", "0", "2", "4", "-", "1", "3", "-", "0", "1">>

Letters ==
  <<"A", "B", "C", "D", "E", "F", "G", "H", "I", "J", "K", "L", "M", "N",
    "O", "P">>

\* The decimal notation of a natural number.
RECURSIVE NumText(_)
NumText(n) ==
  IF n < 10 THEN <<DigitChar(n)>>
  ELSE NumText(n \div 10) \o <<DigitChar(n % 10)>>

MaxRows == 2

\* Files for the pipeline as a whole: columns present or not, cells well
\* formed or not, and a file that cannot be read.
ColumnSets ==
  {AllColumns,
   AllColumns \ {"aisle"},
   AllColumns \ {"transaction_date"},
   AllColumns \ {"quantity", "loyalty_points"},
   AllColumns \ {"store_name", "unit_price"}}

PipelineRows ==
  {MkRow(d, <<"A">>, <<"P">>, <<"K">>, f, f) :
     d \in {Sep15, Month13}, f \in {<<"1", "0">>, <<"x", "1">>}}

PipelineFiles ==
  {File(FALSE, AllColumns, <<>>)}
  \cup {File(TRUE, cols, rows) :
          cols \in ColumnSets, rows \in SeqsUpTo(PipelineRows, MaxRows)}

Init == \E fp \in PipelineFiles : Start(fp)

Spec == Init /\ [][Next]_vars

----------------------------------------------------------------------------
(* C1 *)

\* The order of the steps as the specification gives it, section 4.10.
ClaimOrder ==
  <<"load_and_clean", "save_summary", "plot_timeseries", "plot_sales_by_store",
    "plot_category_breakdown", "plot_top_products", "plot_weekday_pattern",
    "plot_discount_vs_sales", "plot_store_month_heatmap">>

\* The output files of each step as the specification gives them, section 6.
ClaimOutputs(step) ==
  CASE step = "save_summary" -> {SUMMARY_CSV}
    [] step = "plot_timeseries" -> {MONTHLY_CSV, MONTHLY_PNG}
    [] step = "plot_sales_by_store" -> {STORES_CSV, STORES_PNG}
    [] step = "plot_category_breakdown" -> {AISLE_CSV, AISLE_PNG}
    [] step = "plot_top_products" -> {PRODUCTS_CSV, PRODUCTS_PNG}
    [] step = "plot_weekday_pattern" -> {WEEKDAY_CSV, WEEKDAY_PNG}
    [] step = "plot_discount_vs_sales" -> {SCATTER_PNG}
    [] step = "plot_store_month_heatmap" -> {HEATMAP_CSV, HEATMAP_PNG}
    [] OTHER -> {}

\* The outputs a step that completed has written: the category step writes
\* nothing for a table without an aisle column.
CompletedOutputs(step) ==
  IF step = "plot_category_breakdown" /\ "aisle" \notin df.columns
  THEN {} ELSE ClaimOutputs(step)

\* The position in ClaimOrder of the step main is at; past the last step
\* when all nine have returned.
Position ==
  IF pc = "print" THEN Len(ClaimOrder) + 1
  ELSE CHOOSE k \in 1..Len(ClaimOrder) : ClaimOrder[k] = pc

C1_State ==
  /\ \A j \in 1..Len(ClaimOrder) :
        /\ j < Position => /\ CompletedOutputs(ClaimOrder[j]) \subseteq written
                           /\ \A f \in CompletedOutputs(ClaimOrder[j]) :
                                 disk[f] # Absent
        /\ j > Position => ClaimOutputs(ClaimOrder[j]) \cap written = {}
  /\ printed <=> status = "done"
  /\ printed => Position = Len(ClaimOrder) + 1
  /\ status = "aborted" <=> err # ""
  /\ status = "aborted" => Position <= Len(ClaimOrder)

C1_Step ==
  /\ status = "running" /\ pc # "print" =>
        \/ /\ status' = "running" /\ err' = ""
           /\ pc' = IF Position = Len(ClaimOrder) THEN "print"
                    ELSE ClaimOrder[Position + 1]
        \/ status' = "aborted" /\ err' # "" /\ pc' = pc
  /\ status = "running" =>
        \A f \in written : f \in written' /\ disk'[f] = disk[f]
  /\ status = "aborted" => UNCHANGED vars

\* C1: main runs load_and_clean, save_summary and the seven chart functions
\* in the fixed order; what a step raises is not caught: the run stops at
\* that step for good, the output files of the steps completed before it
\* are on disk and stay as written, no later step has written anything, and
\* the completion line is printed exactly when all steps succeeded.
C1_FixedOrderAbortOnFirstFailure == [](C1_State) /\ [][C1_Step]_vars

\* A second run stopped in plot_weekday_pattern by a failing write: the
\* product ranking of this run is on disk, the heatmap pivot on disk is the
\* one of the run before.
C1_Witness ==
  /\ status = "aborted"
  /\ pc = "plot_weekday_pattern"
  /\ err = "OSError"
  /\ PRODUCTS_CSV \in written
  /\ WEEKDAY_PNG \in written
  /\ WEEKDAY_CSV \notin written
  /\ HEATMAP_CSV \notin written
  /\ disk[HEATMAP_CSV] # Absent

----------------------------------------------------------------------------
(* C6 *)

C6_State ==
  "aisle" \notin df.columns /\ pc # "load_and_clean" =>
     /\ {AISLE_CSV, AISLE_PNG} \cap written = {}
     /\ ~(status = "aborted" /\ pc = "plot_category_breakdown")
     /\ status = "done" => written = Files \ {AISLE_CSV, AISLE_PNG}

C6_Step ==
  pc = "plot_category_breakdown" /\ status = "running" =>
     IF "aisle" \in df.columns
     THEN status' = "running" => {AISLE_CSV, AISLE_PNG} \subseteq written'
     ELSE /\ status' = "running"
          /\ pc' = "plot_top_products"
          /\ err' = ""
          /\ written' = written
          /\ disk' = disk

\* C6: on a table without an aisle column plot_category_breakdown writes
\* neither sales_by_aisle.csv nor aisle_pie_top12.png and raises nothing,
\* main goes on with plot_top_products, and a run that completes has written
\* every other output; with the column, a category step that returns has
\* written both files.
C6_CategorySkippedWithoutAisle == [](C6_State) /\ [][C6_Step]_vars

\* A completed run on a file without aisle column: no aisle output, the
\* product, weekday, scatter and heatmap outputs written.
C6_Witness ==
  /\ status = "done"
  /\ "aisle" \notin input.columns
  /\ Len(df.rows) > 0
  /\ {AISLE_CSV, AISLE_PNG} \cap written = {}
  /\ {PRODUCTS_CSV, WEEKDAY_CSV, SCATTER_PNG, HEATMAP_CSV} \subseteq written

----------------------------------------------------------------------------
(* C8 *)

C8_Step ==
  status = "running" /\ pc # "load_and_clean" => df' = df

\* C8: no step of main after load_and_clean changes the cleaned table,
\* whether the step succeeds, skips or fails.
C8_CleanedTableUnchanged == [][C8_Step]_vars

\* plot_timeseries has returned on a table with rows, its monthly table
\* written with month start dates as keys, the cleaned table still holding
\* the labels.
C8_Witness ==
  /\ pc = "plot_sales_by_store"
  /\ status = "running"
  /\ MONTHLY_CSV \in written
  /\ \E i \in 1..Len(df.rows) :
        /\ df.rows[i]["year_month"] = <<"2", "0", "2", "4", "-", "0", "9">>
        /\ \E p \in 1..Len(disk[MONTHLY_CSV][1]) :
              disk[MONTHLY_CSV][1][p].key = <<[y |-> 2024, m |-> 9, d |-> 1]>>

----------------------------------------------------------------------------
(* C9 *)

NumericColumns ==
  {"quantity", "unit_price", "total_amount", "discount_amount",
   "final_amount", "loyalty_points"}

DerivedColumns == {"date", "year_month", "weekday"}

\* A cell that holds a number or is missing.
NumericOrMissing(v) == v = NaN \/ (Len(v) = 1 /\ v[1] \in Int)

C9_State ==
  /\ status = "aborted" /\ pc = "load_and_clean" => ~input.readable
  /\ pc # "load_and_clean" =>
        /\ input.readable
        /\ Len(df.rows) = Len(input.rows)
        /\ df.columns \cap NumericColumns = input.columns \cap NumericColumns
        /\ \A c \in df.columns \cap NumericColumns :
              \A i \in 1..Len(df.rows) :
                 /\ NumericOrMissing(df.rows[i][c])
                 /\ df.rows[i][c] = NaN <=> ~IsNumberText(input.rows[i][c])
        /\ IF "transaction_date" \in input.columns
           THEN /\ DerivedColumns \subseteq df.columns
                /\ \A i \in 1..Len(df.rows) :
                      df.rows[i]["transaction_date"] = NaN
                         <=> ~IsDateText(input.rows[i]["transaction_date"])
           ELSE DerivedColumns \cap df.columns = {}

\* C9: load_and_clean fails on no readable file; afterwards each of the six
\* numeric columns that the file has holds only numbers and missing values,
\* missing exactly where the text was no number; a numeric column the file
\* lacks is not created; a transaction_date that is no date is missing; and
\* date, year_month and weekday exist exactly when the file has a
\* transaction_date column.
C9_CleaningNeverFailsOnCellText == C9_State

\* load_and_clean has returned on a file with a final_amount that is no
\* number and a transaction_date that is no date.
C9_Witness ==
  /\ pc = "save_summary"
  /\ \E i \in 1..Len(df.rows) :
        /\ input.rows[i]["final_amount"] = <<"x", "1">>
        /\ input.rows[i]["transaction_date"] = Month13
        /\ df.rows[i]["final_amount"] = NaN
        /\ df.rows[i]["transaction_date"] = NaN
        /\ df.rows[i]["year_month"] = NaTText

----------------------------------------------------------------------------
(* C2 *)

MaxSummaryRows == 3

\* Files for save_summary: final amounts present, missing and no number.
SummaryRows ==
  {MkRow(Sep15, <<"A">>, <<"P">>, <<"K">>, f, <<"1">>) :
     f \in {<<"1", "0">>, <<"2", "0">>, <<"3">>, <<>>}}

SummaryFiles ==
  {File(TRUE, AllColumns, rows) : rows \in SeqsUpTo(SummaryRows, MaxSummaryRows)}

InitSummary == \E fp \in SummaryFiles : Start(fp)

SpecSummary == InitSummary /\ [][Next]_vars

\* The sum of xs[i][1] over the positions i of I.
RECURSIVE SumAt(_, _)
SumAt(xs, I) ==
  IF I = {} THEN 0
  ELSE LET i == CHOOSE j \in I : TRUE IN xs[i][1] + SumAt(xs, I \ {i})

\* The lower and the upper middle of the present values of xs: the least
\* value with at least half of the values at or below it, the greatest with
\* at least half of them at or above it.
LowerMiddle(xs) ==
  LET P == Present(xs)
      V == {xs[i][1] : i \in P}
      Half(v) == 2 * Cardinality({i \in P : xs[i][1] <= v}) >= Cardinality(P)
  IN  CHOOSE v \in V : Half(v) /\ \A w \in V : Half(w) => v <= w

UpperMiddle(xs) ==
  LET P == Present(xs)
      V == {xs[i][1] : i \in P}
      Half(v) == 2 * Cardinality({i \in P : xs[i][1] >= v}) >= Cardinality(P)
  IN  CHOOSE v \in V : Half(v) /\ \A w \in V : Half(w) => v >= w

C2_Metrics(m, xs) ==
  LET P == Present(xs)
      n == Cardinality(P)
  IN  /\ m.total_sales = <<SumAt(xs, P)>>
      /\ m.total_transactions = Len(xs)
      /\ IF n = 0
         THEN /\ m.avg_transaction_value = NaN
              /\ m.median_transaction_value = NaN
         ELSE /\ m.avg_transaction_value # NaN
              /\ m.avg_transaction_value[1].n * n
                    = SumAt(xs, P) * m.avg_transaction_value[1].d
              /\ m.median_transaction_value # NaN
              /\ m.median_transaction_value[1].n * 2
                    = (LowerMiddle(xs) + UpperMiddle(xs))
                      * m.median_transaction_value[1].d

C2_State ==
  /\ SUMMARY_CSV \in written =>
        C2_Metrics(disk[SUMMARY_CSV][1], Column(df, "final_amount"))
  /\ SUMMARY_CSV \in written
     /\ Column(df, "final_amount") = << <<10>>, <<20>>, NaN >> =>
        /\ disk[SUMMARY_CSV][1].total_sales = <<30>>
        /\ disk[SUMMARY_CSV][1].total_transactions = 3
        /\ disk[SUMMARY_CSV][1].avg_transaction_value = <<[n |-> 15, d |-> 1]>>
        /\ disk[SUMMARY_CSV][1].median_transaction_value = <<[n |-> 15, d |-> 1]>>
  /\ status = "aborted" /\ pc = "save_summary"
     /\ {"final_amount", "quantity"} \subseteq df.columns => err = "OSError"

\* C2: the summary save_summary writes has total_sales = the sum of the
\* present final amounts, total_transactions = the number of rows, missing
\* final amounts included, avg_transaction_value = total_sales over the
\* number of present final amounts, median_transaction_value = the median of
\* the present final amounts; mean and median are missing when no final
\* amount is present, and then as ever save_summary raises only when its
\* file cannot be written. [10, 20, missing] gives 30, 3, 15, 15.
C2_SummaryMetrics == C2_State

\* The summary of final_amount = [10, 20, missing] is written.
C2_Witness ==
  /\ SUMMARY_CSV \in written
  /\ Column(df, "final_amount") = << <<10>>, <<20>>, NaN >>
  /\ disk[SUMMARY_CSV][1].avg_transaction_value = <<[n |-> 15, d |-> 1]>>

\* The summary of a table whose final amounts are all missing is written.
C2_WitnessAllMissing ==
  /\ SUMMARY_CSV \in written
  /\ Len(df.rows) = 2
  /\ Present(Column(df, "final_amount")) = {}
  /\ disk[SUMMARY_CSV][1].avg_transaction_value = NaN
  /\ disk[SUMMARY_CSV][1].total_sales = <<0>>

----------------------------------------------------------------------------
(* C4, C7 *)

MaxCalendarRows == 2

\* Files for the weekday and monthly tables: days of four months of three
\* years, a date that is none, a missing final amount.
CalendarRows ==
  {MkRow(d, <<"A">>, <<"P">>, <<"K">>, <<"1", "0">>, <<"1">>) :
     d \in {Sep15, Oct07, Dec31, Jan01, Month13}}
  \cup {MkRow(Sep15, <<"A">>, <<"P">>, <<"K">>, <<>>, <<"1">>)}

CalendarFiles ==
  {File(TRUE, AllColumns, rows) :
     rows \in SeqsUpTo(CalendarRows, MaxCalendarRows)}

InitCalendar == \E fp \in CalendarFiles : Start(fp)

SpecCalendar == InitCalendar /\ [][Next]_vars

\* The sum of the present final amounts of the rows I of the cleaned table.
SumOfRows(I) ==
  LET xs == Column(df, "final_amount") IN SumAt(xs, I \cap Present(xs))

ClaimWeekdays ==
  << <<"M", "o", "n", "d", "a", "y">>,
     <<"T", "u", "e", "s", "d", "a", "y">>,
     <<"W", "e", "d", "n", "e", "s", "d", "a", "y">>,
     <<"T", "h", "u", "r", "s", "d", "a", "y">>,
     <<"F", "r", "i", "d", "a", "y">>,
     <<"S", "a", "t", "u", "r", "d", "a", "y">>,
     <<"S", "u", "n", "d", "a", "y">> >>

C4_State ==
  WEEKDAY_CSV \in written =>
     LET w == disk[WEEKDAY_CSV][1]
     IN  /\ Len(w) = 7
         /\ \A p \in 1..7 :
               LET R == {i \in 1..Len(df.rows) :
                           df.rows[i]["weekday"] = ClaimWeekdays[p]}
               IN  /\ w[p].key = ClaimWeekdays[p]
                   /\ w[p].value = IF R = {} THEN NaN ELSE <<SumOfRows(R)>>

\* C4: the table plot_weekday_pattern writes has exactly 7 rows, Monday to
\* Sunday in this order, whichever weekdays the input has; a weekday of no
\* row has the missing value, not zero, and a weekday that occurs has the
\* sum of its present final amounts.
C4_WeekdayTableSevenRows == C4_State

\* The weekday table of a file with one Sunday row (10) and one Monday row
\* (10): Monday 10, Tuesday missing, Sunday 10.
C4_Witness ==
  /\ WEEKDAY_CSV \in written
  /\ Len(df.rows) = 2
  /\ df.rows[1]["date"] = <<[y |-> 2024, m |-> 9, d |-> 15]>>
  /\ df.rows[2]["date"] = <<[y |-> 2024, m |-> 10, d |-> 7]>>
  /\ disk[WEEKDAY_CSV][1][1].value = <<10>>
  /\ disk[WEEKDAY_CSV][1][2].value = NaN
  /\ disk[WEEKDAY_CSV][1][7].value = <<10>>

\* The first day of the month of a timestamp, missing for NaT.
MonthStartOf(t) ==
  IF t = NaN THEN NaN ELSE <<[y |-> t[1].y, m |-> t[1].m, d |-> 1]>>

DateLess(a, b) ==
  \/ a[1].y < b[1].y
  \/ (a[1].y = b[1].y /\ a[1].m < b[1].m)
  \/ (a[1].y = b[1].y /\ a[1].m = b[1].m /\ a[1].d < b[1].d)

C7_State ==
  MONTHLY_CSV \in written =>
     LET monthly == disk[MONTHLY_CSV][1]
         Month(i) == MonthStartOf(df.rows[i]["transaction_date"])
         Months == {Month(i) : i \in 1..Len(df.rows)}
     IN  /\ Len(monthly) = Cardinality(Months)
         /\ \A g \in Months :
               \E p \in 1..Len(monthly) :
                  /\ monthly[p].key = g
                  /\ monthly[p].value =
                        <<SumOfRows({i \in 1..Len(df.rows) : Month(i) = g})>>
         /\ \A p, q \in 1..Len(monthly) :
               p < q =>
                  /\ monthly[p].key # NaN
                  /\ (monthly[q].key # NaN =>
                        DateLess(monthly[p].key, monthly[q].key))

\* C7: the monthly totals plot_timeseries writes have one row per
\* year-month group with the sum of the present final amounts of the group,
\* in the order of the month start dates; the rows whose transaction date is
\* no date are one group, whose row has no date and comes last.
C7_MonthlyTotalsChronological == C7_State

\* The monthly totals of a file with a row of October 2024 and a row of
\* September 2024, in this order: September first.
C7_Witness ==
  /\ MONTHLY_CSV \in written
  /\ Len(df.rows) = 2
  /\ df.rows[1]["year_month"] = <<"2", "0", "2", "4", "-", "1", "0">>
  /\ df.rows[2]["year_month"] = <<"2", "0", "2", "4", "-", "0", "9">>
  /\ disk[MONTHLY_CSV][1][1].key = <<[y |-> 2024, m |-> 9, d |-> 1]>>
  /\ disk[MONTHLY_CSV][1][2].key = <<[y |-> 2024, m |-> 10, d |-> 1]>>

\* The monthly totals of a file with a row that has no date: its group is
\* the last row.
C7_WitnessNaT ==
  /\ MONTHLY_CSV \in written
  /\ Len(df.rows) = 2
  /\ df.rows[1]["transaction_date"] = NaN
  /\ df.rows[2]["transaction_date"] # NaN
  /\ disk[MONTHLY_CSV][1][2].key = NaN
  /\ disk[MONTHLY_CSV][1][2].value = <<10>>

----------------------------------------------------------------------------
(* Files with more stores, aisles and products than the charts show, and
   with more rows than the scatter plot samples *)

StoreCount == TopStores + 1

ProductCount == TopProducts + 1

\* Row i of n: the stores and aisles, the products and two months in turn;
\* the final amount is 1 in every row ("equal") or the row number.
WideRow(i, pattern) ==
  MkRow(IF i % 2 = 1 THEN Sep15 ELSE Oct07,
        <<Letters[((i - 1) % StoreCount) + 1]>>,
        <<Letters[((i - 1) % ProductCount) + 1]>>,
        <<Letters[((i - 1) % StoreCount) + 1]>>,
        IF pattern = "equal" THEN <<"1">> ELSE NumText(i),
        <<"1">>)

WideFile(n, pattern) ==
  File(TRUE, AllColumns, [i \in 1..n |-> WideRow(i, pattern)])

\* Files for the sample of plot_discount_vs_sales: one row more than the
\* sample size, and the small files of the pipeline.
SampleFiles ==
  {WideFile(SampleSize + 1, "equal")} \cup PipelineFiles

InitSample == \E fp \in SampleFiles : Start(fp)

SpecSample == InitSample /\ [][Next]_vars

----------------------------------------------------------------------------
(* C10 *)

C10_State ==
  /\ \A f \in written : prev[f] # Absent => disk[f] = prev[f]
  /\ SCATTER_PNG \in written =>
        LET drawn == disk[SCATTER_PNG][1]
            n == Len(df.rows)
        IN  /\ Len(drawn.rows) = (IF n < 800 THEN n ELSE 800)
            /\ Len(drawn.points) = Len(drawn.rows)
            /\ Cardinality({drawn.rows[p] : p \in 1..Len(drawn.rows)})
                  = Len(drawn.rows)
            /\ \A p \in 1..Len(drawn.rows) :
                  /\ drawn.rows[p] \in 1..n
                  /\ drawn.points[p].x = df.rows[drawn.rows[p]]["discount_amount"]
                  /\ drawn.points[p].y = df.rows[drawn.rows[p]]["final_amount"]

\* C10: a run on the input of the run before writes every file with the
\* content the run before wrote, whatever the state of the global random
\* generator of either process; the rows plot_discount_vs_sales draws are
\* min(800, number of rows) different rows of the cleaned table, the same in
\* both runs.
C10_RerunIdenticalOutputs == C10_State

\* The second run on the file of 801 rows has drawn its scatter plot: 800
\* rows, the ones the run before drew.
C10_Witness ==
  /\ prev[SCATTER_PNG] # Absent
  /\ SCATTER_PNG \in written
  /\ MONTHLY_CSV \in written
  /\ Len(df.rows) = SampleSize + 1
  /\ Len(disk[SCATTER_PNG][1].rows) = SampleSize
  /\ disk[SCATTER_PNG] = prev[SCATTER_PNG]

----------------------------------------------------------------------------
(* C3, C5 *)

MaxRankingRows == 2

\* Files for the rankings and the pivot: two stores and rows without store
\* name, two months, equal and different amounts; and the files with 13
\* stores and 16 products.
RankingRows ==
  {MkRow(d, s, IF s = <<"A">> THEN <<"Q">> ELSE <<"P">>,
         <<"K">>, <<"1", "0">>, <<"1">>) :
     d \in {Sep15, Oct07}, s \in {<<"A">>, <<"B">>}}
  \cup {MkRow(Oct07, <<>>, <<>>, <<"K">>, <<"1", "0">>, <<"1">>),
        MkRow(Sep15, <<"A">>, <<"Q">>, <<"K">>, <<"2", "0">>, <<"1">>),
        MkRow(Oct07, <<"B">>, <<"P">>, <<"K">>, <<>>, <<"1">>)}

RankingFiles ==
  {File(TRUE, AllColumns, rows) : rows \in SeqsUpTo(RankingRows, MaxRankingRows)}
  \cup {WideFile(ProductCount, "equal"), WideFile(ProductCount, "rownumber")}

InitRanking == \E fp \in RankingFiles : Start(fp)

SpecRanking == InitRanking /\ [][Next]_vars

\* The rows of the cleaned table whose column c holds k.
RowsWith(c, k) == {i \in 1..Len(df.rows) : df.rows[i][c] = k}

\* s holds every value of the column c once, with the sum of the present
\* final amounts of its rows, no entry before one of greater sum.
IsRanking(s, c) ==
  LET K == {df.rows[i][c] : i \in 1..Len(df.rows)} \ {NaN}
  IN  /\ Len(s) = Cardinality(K)
      /\ {s[p].key : p \in 1..Len(s)} = K
      /\ \A p \in 1..Len(s) : s[p].value = <<SumOfRows(RowsWith(c, s[p].key))>>
      /\ \A p, q \in 1..Len(s) : p < q => s[p].value[1] >= s[q].value[1]

\* Entries of equal sum are in the order of their keys.
TiesInKeyOrder(s) ==
  \A p, q \in 1..Len(s) :
     p < q /\ s[p].value = s[q].value => StrLess(s[p].key, s[q].key)

\* C3 as claimed: sales_by_store.csv and sales_by_product.csv hold every
\* store / product once, in descending order of the summed final amount,
\* groups of equal sum in the order of the groupby keys.
C3_StableRanking ==
  /\ STORES_CSV \in written =>
        IsRanking(disk[STORES_CSV][1], "store_name")
        /\ TiesInKeyOrder(disk[STORES_CSV][1])
  /\ PRODUCTS_CSV \in written =>
        IsRanking(disk[PRODUCTS_CSV][1], "product_name")
        /\ TiesInKeyOrder(disk[PRODUCTS_CSV][1])

\* C3 as amended: sales_by_store.csv and sales_by_product.csv hold every
\* store / product once, the full ranking and not only the 12 / 15 entries
\* of the chart, with no entry before one of greater summed final amount;
\* the order of entries of equal sum is not determined.
C3_FullRankingNonIncreasing ==
  /\ STORES_CSV \in written =>
        /\ IsRanking(disk[STORES_CSV][1], "store_name")
        /\ disk[STORES_PNG][1] =
              SubSeq(disk[STORES_CSV][1], 1, Min2(12, Len(disk[STORES_CSV][1])))
  /\ PRODUCTS_CSV \in written =>
        /\ IsRanking(disk[PRODUCTS_CSV][1], "product_name")
        /\ Len(disk[PRODUCTS_PNG][1]) = Min2(15, Len(disk[PRODUCTS_CSV][1]))

\* The store ranking of the file with 13 stores is written: 13 entries, 12
\* in the chart, and two stores of equal sum not in the order of their keys.
C3_Witness ==
  /\ STORES_CSV \in written
  /\ Len(disk[STORES_CSV][1]) = 13
  /\ Len(disk[STORES_PNG][1]) = 12
  /\ \E p \in 1..12 :
        /\ disk[STORES_CSV][1][p].value = disk[STORES_CSV][1][p + 1].value
        /\ StrLess(disk[STORES_CSV][1][p + 1].key, disk[STORES_CSV][1][p].key)

\* The pivot has at most 12 rows, the stores of greatest total in
\* non-increasing order of total, one column for each label of M, and in
\* every cell the sum of the present final amounts of the store in the
\* month, 0 when the store has no row in the month.
IsTopPivot(pv, M) ==
  LET R == {i \in 1..Len(df.rows) : df.rows[i]["store_name"] # NaN}
      S == {df.rows[i]["store_name"] : i \in R}
      Total(s) == SumOfRows(RowsWith("store_name", s))
      Top == {pv.rows[p].key : p \in 1..Len(pv.rows)}
  IN  /\ Len(pv.rows) = Min2(12, Cardinality(S))
      /\ Cardinality(Top) = Len(pv.rows)
      /\ Top \subseteq S
      /\ \A p, q \in 1..Len(pv.rows) :
            p < q => Total(pv.rows[p].key) >= Total(pv.rows[q].key)
      /\ \A s \in S \ Top : \A t \in Top : Total(s) <= Total(t)
      /\ Len(pv.columns) = Cardinality(M)
      /\ {pv.columns[q] : q \in 1..Len(pv.columns)} = M
      /\ \A p \in 1..Len(pv.rows) :
            /\ Len(pv.rows[p].values) = Len(pv.columns)
            /\ \A q \in 1..Len(pv.columns) :
                  pv.rows[p].values[q] =
                     <<SumOfRows(RowsWith("store_name", pv.rows[p].key)
                                 \cap RowsWith("year_month", pv.columns[q]))>>

\* C5 as claimed: the pivot has one column per year-month label of the
\* table.
C5_ColumnPerLabelOfTable ==
  HEATMAP_CSV \in written =>
     IsTopPivot(disk[HEATMAP_CSV][1],
                {df.rows[i]["year_month"] : i \in 1..Len(df.rows)})

\* C5 as amended: the pivot plot_store_month_heatmap writes has at most 12
\* rows, the stores of greatest total over all months in non-increasing
\* order of total, one column per year-month label of the rows that have a
\* store name, and no missing cell: each cell is the summed final amount of
\* the store in the month, 0 when the store has no row in the month.
C5_TopPivotFilled ==
  HEATMAP_CSV \in written =>
     IsTopPivot(disk[HEATMAP_CSV][1],
                {df.rows[i]["year_month"] :
                   i \in {j \in 1..Len(df.rows) : df.rows[j]["store_name"] # NaN}})

\* The pivot of the file with 13 stores is written: 12 rows, two months,
\* and a cell 0 of a store without row in a month.
C5_Witness ==
  /\ HEATMAP_CSV \in written
  /\ Len(df.rows) = ProductCount
  /\ Len(disk[HEATMAP_CSV][1].rows) = 12
  /\ Len(disk[HEATMAP_CSV][1].columns) = 2
  /\ \E p \in 1..12 : disk[HEATMAP_CSV][1].rows[p].values[1] = <<0>>

\* The pivot of a file whose October row has no store name is written: it
\* has the September column only.
C5_WitnessNoStore ==
  /\ HEATMAP_CSV \in written
  /\ Len(df.rows) = 2
  /\ df.rows[1]["store_name"] = <<"A">>
  /\ df.rows[1]["year_month"] = <<"2", "0", "2", "4", "-", "0", "9">>
  /\ df.rows[2]["store_name"] = NaN
  /\ df.rows[2]["year_month"] = <<"2", "0", "2", "4", "-", "1", "0">>
  /\ disk[HEATMAP_CSV][1].columns = << <<"2", "0", "2", "4", "-", "0", "9">> >>

====
